---- MODULE Spec2Model ----
(***************************************************************************)
(* CCPM diagram generator: the geometry helpers (task, trap_left, rb_flag, *)
(* the five anchor functions) and the render pass of the two programs      *)
(* ccpm_diagram.py (module-level script) and ccpm_diagram_improved.py      *)
(* (create_ccpm_diagram).                                                  *)
(*                                                                         *)
(* Coordinates are Python floats; they are modelled in fixed point, an     *)
(* integer n standing for n / Scale.  Every literal of the sources is a    *)
(* multiple of 1/Scale and every product and quotient the programs form    *)
(* on the modelled inputs is exact in this representation.                 *)
(*                                                                         *)
(* ccpm_diagram.py is committed with unresolved conflict markers around    *)
(* its helper definitions (lines 1-166); the variable side is the side of  *)
(* the conflict the helpers are taken from.  The script body (lines        *)
(* 168-239) lies outside the conflict.                                     *)
(***************************************************************************)
EXTENDS Integers, Sequences, FiniteSets, TLC

VARIABLES side, pc, status, shapes, arrows, limits, attempts, files, printed,
          args, result

vars == <<side, pc, status, shapes, arrows, limits, attempts, files, printed,
          args, result>>

runVars == <<side, pc, status, shapes, arrows, limits, attempts, files, printed>>

geomVars == <<args, result>>

(***************************************************************************)
(* Fixed-point arithmetic                                                  *)
(***************************************************************************)
Scale == 1000

\* float product a * b
Mul(a, b) == (a * b) \div Scale

\* float quotient a / 2
Half(a) == a \div 2

(***************************************************************************)
(* Bounds of the inputs the helper functions are applied to                *)
(***************************************************************************)
CoordSteps == 2
ExtSteps == 4

Grid == Scale \div 2

Coords == {k * Grid : k \in (0 - CoordSteps)..CoordSteps}
Extents == {k * Grid : k \in 0..ExtSteps}

(***************************************************************************)
(* Layout constants of the helper layer                                    *)
(***************************************************************************)
TASK_WIDTH == 1800
TASK_HEIGHT == 800
BUFFER_WIDTH == 1600
BUFFER_HEIGHT == 800
TRAP_INDENT == 400
FLAG_SIZE == 500

(***************************************************************************)
(* Shape helpers                                                           *)
(***************************************************************************)
\* the Box a task returns
task(x, y, w, h) == <<x, y, w, h>>

\* the outline of matplotlib's Rectangle((x, y), w, h) a task draws
RectanglePts(x, y, w, h) == << <<x, y>>, <<x + w, y>>, <<x + w, y + h>>, <<x, y + h>> >>

trap_left_inset_right(x, y, w, h) ==
    LET indent == Mul(TRAP_INDENT, w)
        pts == << <<x, y>>, <<x + w, y>>, <<x + w - indent, y + h>>, <<x, y + h>> >>
    IN  [points |-> pts, box |-> <<x, y, w, h>>]

\* ccpm_diagram_improved.py, and the 5823195 side of ccpm_diagram.py
trap_left(x, y, w, h) ==
    LET indent == Mul(TRAP_INDENT, w)
        pts == << <<x, y>>, <<x + w, y>>, <<x + w, y + h>>, <<x + indent, y + h>> >>
    IN  [points |-> pts, box |-> <<x, y, w, h>>]

\* the HEAD side of ccpm_diagram.py: returns the pair (pts, box)
trap_left_HEAD(x, y, w, h) ==
    LET pts == << <<x, y>>, <<x + w, y>>, <<x + w, y + h>>, <<x + Mul(400, w), y + h>> >>
    IN  <<pts, <<x, y, w, h>> >>

Sides == {"HEAD", "5823195"}

\* "pts, box = trap_left(...)": both return shapes unpack to the same pair
TrapCall(sd, x, y, w, h) ==
    IF sd = "HEAD"
    THEN LET r == trap_left_HEAD(x, y, w, h) IN [points |-> r[1], box |-> r[2]]
    ELSE LET r == trap_left(x, y, w, h) IN [points |-> r.points, box |-> r.box]

rb_flag_apex_right(x, y, s) ==
    << <<x, y>>, <<x + s, y>>, <<x + s, y + Mul(580, s)>> >>

\* the vertices of the triangle rb_flag builds
rb_flag(x, y, s) ==
    << <<x, y>>, <<x + s, y>>, <<x + Mul(500, s), y + Mul(580, s)>> >>

(***************************************************************************)
(* Anchor helpers                                                          *)
(***************************************************************************)
left_mid(b) == <<b[1], b[2] + Half(b[4])>>

right_mid(b) == <<b[1] + b[3], b[2] + Half(b[4])>>

top_mid_no_height(b) == <<b[1] + Half(b[3]), b[2]>>

top_mid(b) == <<b[1] + Half(b[3]), b[2] + b[4]>>

bottom_mid(b) == <<b[1] + Half(b[3]), b[2]>>

center(b) == <<b[1] + Half(b[3]), b[2] + Half(b[4])>>

(***************************************************************************)
(* The helper functions applied to bounded inputs                          *)
(***************************************************************************)
ArgSet == [x : Coords, y : Coords, w : Extents, h : Extents, s : Extents]

NoArgs == [x |-> 0, y |-> 0, w |-> 0, h |-> 0, s |-> 0]

NoResult == [fn |-> "none", val |-> <<>>]

ArgBox == <<args.x, args.y, args.w, args.h>>

CallTask ==
    /\ result' = [fn |-> "task", val |-> task(args.x, args.y, args.w, args.h)]
    /\ UNCHANGED <<args, runVars>>

CallTrapLeft ==
    /\ \E sd \in Sides :
          result' = [fn |-> "trap_left", val |-> TrapCall(sd, args.x, args.y, args.w, args.h)]
    /\ UNCHANGED <<args, runVars>>

CallRbFlag ==
    /\ result' = [fn |-> "rb_flag", val |-> rb_flag(args.x, args.y, args.s)]
    /\ UNCHANGED <<args, runVars>>

CallLeftMid ==
    /\ result' = [fn |-> "left_mid", val |-> left_mid(ArgBox)]
    /\ UNCHANGED <<args, runVars>>

CallRightMid ==
    /\ result' = [fn |-> "right_mid", val |-> right_mid(ArgBox)]
    /\ UNCHANGED <<args, runVars>>

CallTopMid ==
    /\ result' = [fn |-> "top_mid", val |-> top_mid(ArgBox)]
    /\ UNCHANGED <<args, runVars>>

CallBottomMid ==
    /\ result' = [fn |-> "bottom_mid", val |-> bottom_mid(ArgBox)]
    /\ UNCHANGED <<args, runVars>>

CallCenter ==
    /\ result' = [fn |-> "center", val |-> center(ArgBox)]
    /\ UNCHANGED <<args, runVars>>

(***************************************************************************)
(* Layout constants of the render pass (the same in both programs)         *)
(***************************************************************************)
x0 == 800
dx == 2400
y_main == 1000
y_feed_1 == 2100
y_feed_2 == 1600
gap == 200

Files == {"ccpm_diagram", "ccpm_diagram_improved"}

Range(q) == {q[i] : i \in 1..Len(q)}

\* the value bound to the Python variable n: the Box its constructor returned
BoxOf(sh, n) == (CHOOSE s \in Range(sh) : s.name = n).box

\* the polygon points bound to the Python variable n
PtsOf(sh, n) == (CHOOSE s \in Range(sh) : s.name = n).pts

ChainNames == <<"A", "B", "C", "D", "E", "H", "I">>

\* chain = [(A, B), (B, C), (C, D), (D, E), (E, H), (H, I)]
chain == [k \in 1..6 |-> <<ChainNames[k], ChainNames[k + 1]>>]

\* pb_left_mid = (pts[0][0], (pts[0][1] + pts[3][1]) / 2.0)
pb_left_mid(pts) == <<pts[1][1], Half(pts[1][2] + pts[4][2])>>

formats_svg_first == <<"svg", "png", "pdf">>

formats == <<"png", "pdf", "svg">>

(***************************************************************************)
(* ccpm_diagram.py: the statements of the module-level script, in order    *)
(***************************************************************************)
ScriptStmt(sh, i) ==
    CASE i = 1 -> [op |-> "figure"]
      [] i \in 2..8 -> [op |-> "task", name |-> ChainNames[i - 1],
                        x |-> x0 + (i - 2) * dx, y |-> y_main]
      [] i = 9 -> [op |-> "trap", name |-> "PB", x |-> x0 + 7 * dx, y |-> y_main]
      [] i \in 10..15 -> [op |-> "arrow", from |-> chain[i - 9][1], to |-> chain[i - 9][2],
                          p1 |-> right_mid(BoxOf(sh, chain[i - 9][1])),
                          p2 |-> left_mid(BoxOf(sh, chain[i - 9][2]))]
      [] i = 16 -> [op |-> "arrow", from |-> "I", to |-> "PB",
                    p1 |-> right_mid(BoxOf(sh, "I")),
                    p2 |-> pb_left_mid(PtsOf(sh, "PB"))]
      [] i = 17 -> [op |-> "task", name |-> "F", x |-> x0 + Mul(2600, dx), y |-> y_feed_1]
      [] i = 18 -> [op |-> "trap", name |-> "FB1", x |-> x0 + Mul(4150, dx), y |-> y_feed_1]
      [] i = 19 -> [op |-> "arrow", from |-> "F", to |-> "FB1",
                    p1 |-> center(BoxOf(sh, "F")), p2 |-> left_mid(BoxOf(sh, "FB1"))]
      [] i = 20 -> LET bm_FB1 == bottom_mid(BoxOf(sh, "FB1"))
                       tm_E == top_mid(BoxOf(sh, "E"))
                   IN  [op |-> "arrow", from |-> "FB1", to |-> "E",
                        p1 |-> <<bm_FB1[1], bm_FB1[2] - gap>>,
                        p2 |-> <<tm_E[1], tm_E[2] + gap>>]
      [] i = 21 -> [op |-> "task", name |-> "G", x |-> x0 + Mul(3450, dx), y |-> y_feed_2]
      [] i = 22 -> [op |-> "trap", name |-> "FB2", x |-> x0 + Mul(5000, dx), y |-> y_feed_2]
      [] i = 23 -> [op |-> "arrow", from |-> "G", to |-> "FB2",
                    p1 |-> center(BoxOf(sh, "G")), p2 |-> left_mid(BoxOf(sh, "FB2"))]
      [] i = 24 -> LET bm_FB2 == bottom_mid(BoxOf(sh, "FB2"))
                       tm_H == top_mid(BoxOf(sh, "H"))
                   IN  [op |-> "arrow", from |-> "FB2", to |-> "H",
                        p1 |-> <<bm_FB2[1], bm_FB2[2] - gap>>,
                        p2 |-> <<tm_H[1], tm_H[2] + gap>>]
      [] i = 25 -> [op |-> "flag", name |-> "RB1", x |-> x0 + 2 * dx - 1000, y |-> y_main - 1000]
      [] i = 26 -> LET C == BoxOf(sh, "C")
                   IN  [op |-> "arrow", from |-> "RB1", to |-> "C",
                        p1 |-> <<x0 + 2 * dx - 500, y_main - 400>>,
                        p2 |-> <<C[1] + Mul(C[3], 780), C[2] + gap>>]
      [] i = 27 -> [op |-> "flag", name |-> "RB2", x |-> x0 + 5 * dx - 1000, y |-> y_main - 1000]
      [] i = 28 -> LET H == BoxOf(sh, "H")
                   IN  [op |-> "arrow", from |-> "RB2", to |-> "H",
                        p1 |-> <<x0 + 5 * dx - 500, y_main - 400>>,
                        p2 |-> <<H[1] + Mul(H[3], 780), H[2] + gap>>]
      [] i = 29 -> [op |-> "legend"]
      [] i = 30 -> [op |-> "canvas", xlim |-> <<0, x0 + Mul(8400, dx)>>, ylim |-> <<0 - 900, 2800>>]
      [] i = 31 -> [op |-> "savefig", fmt |-> "png"]
      [] i = 32 -> [op |-> "savefig", fmt |-> "pdf"]
      [] i = 33 -> [op |-> "savefig", fmt |-> "svg"]
      [] i = 34 -> [op |-> "print"]
      [] i = 35 -> [op |-> "show"]
      [] OTHER -> [op |-> "end"]

(***************************************************************************)
(* ccpm_diagram_improved.py: the statements create_ccpm_diagram executes   *)
(***************************************************************************)
\* k-th statement of the body of create_feeder; buf names the local fb_data
create_feeder(sh, k, buf, feeder_task, feeder_y, buffer_x, main_task) ==
    CASE k = 1 -> [op |-> "trap", name |-> buf, x |-> buffer_x, y |-> feeder_y]
      [] k = 2 -> [op |-> "arrow", from |-> feeder_task, to |-> buf,
                   p1 |-> center(BoxOf(sh, feeder_task)), p2 |-> left_mid(BoxOf(sh, buf))]
      [] k = 3 -> LET bm_buffer == bottom_mid(BoxOf(sh, buf))
                      tm_task == top_mid(BoxOf(sh, main_task))
                  IN  [op |-> "arrow", from |-> buf, to |-> main_task,
                       p1 |-> <<bm_buffer[1], bm_buffer[2] - gap>>,
                       p2 |-> <<tm_task[1], tm_task[2] + gap>>]

\* k-th statement of the body of create_resource_flag; flag names the triangle
create_resource_flag(sh, k, flag, flag_x, flag_y, target_task, target_offset) ==
    CASE k = 1 -> [op |-> "flag", name |-> flag, x |-> flag_x, y |-> flag_y]
      [] k = 2 -> LET target == BoxOf(sh, target_task)
                  IN  [op |-> "arrow", from |-> flag, to |-> target_task,
                       p1 |-> <<flag_x + Half(FLAG_SIZE), flag_y - 400>>,
                       p2 |-> <<target[1] + Mul(target[3], target_offset), target[2] + gap>>]

ImprovedStmt(sh, i) ==
    CASE i = 1 -> [op |-> "figure"]
      [] i \in 2..8 -> [op |-> "task", name |-> ChainNames[i - 1],
                        x |-> x0 + (i - 2) * dx, y |-> y_main]
      [] i = 9 -> [op |-> "trap", name |-> "PB", x |-> x0 + 7 * dx, y |-> y_main]
      [] i \in 10..15 -> [op |-> "arrow", from |-> chain[i - 9][1], to |-> chain[i - 9][2],
                          p1 |-> right_mid(BoxOf(sh, chain[i - 9][1])),
                          p2 |-> left_mid(BoxOf(sh, chain[i - 9][2]))]
      [] i = 16 -> [op |-> "arrow", from |-> "I", to |-> "PB",
                    p1 |-> right_mid(BoxOf(sh, "I")),
                    p2 |-> pb_left_mid(PtsOf(sh, "PB"))]
      [] i = 17 -> [op |-> "task", name |-> "F", x |-> x0 + Mul(2600, dx), y |-> y_feed_1]
      [] i \in 18..20 -> create_feeder(sh, i - 17, "FB1", "F", y_feed_1, x0 + Mul(4150, dx), "E")
      [] i = 21 -> [op |-> "task", name |-> "G", x |-> x0 + Mul(3450, dx), y |-> y_feed_2]
      [] i \in 22..24 -> create_feeder(sh, i - 21, "FB2", "G", y_feed_2, x0 + Mul(5000, dx), "H")
      [] i \in 25..26 -> create_resource_flag(sh, i - 24, "RB1", x0 + 2 * dx - 1000,
                                              y_main - 1000, "C", 780)
      [] i \in 27..28 -> create_resource_flag(sh, i - 26, "RB2", x0 + 5 * dx - 1000,
                                              y_main - 1000, "H", 780)
      [] i = 29 -> [op |-> "legend"]
      [] i = 30 -> [op |-> "canvas", xlim |-> <<0, x0 + Mul(8400, dx)>>, ylim |-> <<0 - 900, 2800>>]
      [] i \in 31..33 -> [op |-> "savefig", fmt |-> formats[i - 30]]
      [] i = 34 -> [op |-> "print"]
      [] i = 35 -> [op |-> "show"]
      [] OTHER -> [op |-> "end"]

\* the statement program f is about to execute
Stmt(f) ==
    IF f = "ccpm_diagram" THEN ScriptStmt(shapes[f], pc[f]) ELSE ImprovedStmt(shapes[f], pc[f])

\* the helper definitions program f runs with
HelperSide(f) == IF f = "ccpm_diagram" THEN side ELSE "5823195"

At(f, o) == status[f] = "running" /\ Stmt(f).op = o

Step(f) == pc' = [pc EXCEPT ![f] = @ + 1]

(***************************************************************************)
(* The render pass, one action per kind of statement                       *)
(***************************************************************************)
\* plt.subplots, fig.suptitle, fig.text
Figure(f) ==
    /\ At(f, "figure")
    /\ Step(f)
    /\ UNCHANGED <<side, status, shapes, arrows, limits, attempts, files, printed, geomVars>>

Task(f) ==
    /\ At(f, "task")
    /\ LET st == Stmt(f)
       IN  shapes' = [shapes EXCEPT ![f] = Append(@,
                         [name |-> st.name, kind |-> "rect",
                          box |-> task(st.x, st.y, TASK_WIDTH, TASK_HEIGHT),
                          pts |-> RectanglePts(st.x, st.y, TASK_WIDTH, TASK_HEIGHT)])]
    /\ Step(f)
    /\ UNCHANGED <<side, status, arrows, limits, attempts, files, printed, geomVars>>

TrapLeft(f) ==
    /\ At(f, "trap")
    /\ LET st == Stmt(f)
           r == TrapCall(HelperSide(f), st.x, st.y, BUFFER_WIDTH, BUFFER_HEIGHT)
       IN  shapes' = [shapes EXCEPT ![f] = Append(@,
                         [name |-> st.name, kind |-> "trap", box |-> r.box, pts |-> r.points])]
    /\ Step(f)
    /\ UNCHANGED <<side, status, arrows, limits, attempts, files, printed, geomVars>>

\* rb_flag returns the Polygon; no Box is kept for a flag
RbFlag(f) ==
    /\ At(f, "flag")
    /\ LET st == Stmt(f)
       IN  shapes' = [shapes EXCEPT ![f] = Append(@,
                         [name |-> st.name, kind |-> "flag", box |-> <<>>,
                          pts |-> rb_flag(st.x, st.y, FLAG_SIZE)])]
    /\ Step(f)
    /\ UNCHANGED <<side, status, arrows, limits, attempts, files, printed, geomVars>>

Arrow(f) ==
    /\ At(f, "arrow")
    /\ LET st == Stmt(f)
       IN  arrows' = [arrows EXCEPT ![f] = Append(@,
                         [from |-> st.from, to |-> st.to, p1 |-> st.p1, p2 |-> st.p2])]
    /\ Step(f)
    /\ UNCHANGED <<side, status, shapes, limits, attempts, files, printed, geomVars>>

Legend(f) ==
    /\ At(f, "legend")
    /\ Step(f)
    /\ UNCHANGED <<side, status, shapes, arrows, limits, attempts, files, printed, geomVars>>

\* set_xlim, set_ylim, axis("off"), tight_layout
Canvas(f) ==
    /\ At(f, "canvas")
    /\ limits' = [limits EXCEPT ![f] = <<Stmt(f).xlim, Stmt(f).ylim>>]
    /\ Step(f)
    /\ UNCHANGED <<side, status, shapes, arrows, attempts, files, printed, geomVars>>

SaveFigSwallowsError(f) ==
    /\ At(f, "savefig")
    /\ attempts' = [attempts EXCEPT ![f] = Append(@, Stmt(f).fmt)]
    /\ \E ok \in BOOLEAN :
          files' = IF ok THEN [files EXCEPT ![f] = Append(@, Stmt(f).fmt)] ELSE files
    /\ Step(f)
    /\ UNCHANGED <<side, status, shapes, arrows, limits, printed, geomVars>>

\* plt.savefig either writes the file or raises; nothing catches the exception
SaveFig(f) ==
    /\ At(f, "savefig")
    /\ attempts' = [attempts EXCEPT ![f] = Append(@, Stmt(f).fmt)]
    /\ \E ok \in BOOLEAN :
          IF ok
          THEN /\ files' = [files EXCEPT ![f] = Append(@, Stmt(f).fmt)]
               /\ Step(f)
               /\ UNCHANGED status
          ELSE /\ status' = [status EXCEPT ![f] = "failed"]
               /\ UNCHANGED <<files, pc>>
    /\ UNCHANGED <<side, shapes, arrows, limits, printed, geomVars>>

PrintExported(f) ==
    /\ At(f, "print")
    /\ printed' = [printed EXCEPT ![f] = TRUE]
    /\ Step(f)
    /\ UNCHANGED <<side, status, shapes, arrows, limits, attempts, files, geomVars>>

\* plt.show is the last statement; the program ends when it returns
Show(f) ==
    /\ At(f, "show")
    /\ status' = [status EXCEPT ![f] = "done"]
    /\ Step(f)
    /\ UNCHANGED <<side, shapes, arrows, limits, attempts, files, printed, geomVars>>

(***************************************************************************)
(* Specifications                                                          *)
(***************************************************************************)
RunInit ==
    /\ pc = [f \in Files |-> 1]
    /\ status = [f \in Files |-> "running"]
    /\ shapes = [f \in Files |-> <<>>]
    /\ arrows = [f \in Files |-> <<>>]
    /\ limits = [f \in Files |-> <<>>]
    /\ attempts = [f \in Files |-> <<>>]
    /\ files = [f \in Files |-> <<>>]
    /\ printed = [f \in Files |-> FALSE]

\* one run of each program
Init ==
    /\ side \in Sides
    /\ RunInit
    /\ args = NoArgs
    /\ result = NoResult

Next ==
    \E f \in Files :
        \/ Figure(f)
        \/ Task(f)
        \/ TrapLeft(f)
        \/ RbFlag(f)
        \/ Arrow(f)
        \/ Legend(f)
        \/ Canvas(f)
        \/ SaveFig(f)
        \/ PrintExported(f)
        \/ Show(f)

Spec == Init /\ [][Next]_vars

\* the helper functions on bounded inputs
InitGeom ==
    /\ side = "HEAD"
    /\ RunInit
    /\ args \in ArgSet
    /\ result = NoResult

NextGeom ==
    \/ CallTask
    \/ CallTrapLeft
    \/ CallRbFlag
    \/ CallLeftMid
    \/ CallRightMid
    \/ CallTopMid
    \/ CallBottomMid
    \/ CallCenter

SpecGeom == InitGeom /\ [][NextGeom]_vars

\* a sequential program always executes its next statement; plt.show returns
\* when the window is closed (at once under a non-interactive backend)
ProgramStep(f) ==
    \/ Figure(f) \/ Task(f) \/ TrapLeft(f) \/ RbFlag(f) \/ Arrow(f)
    \/ Legend(f) \/ Canvas(f) \/ SaveFig(f) \/ PrintExported(f) \/ Show(f)

FairSpec == Spec /\ \A f \in Files : WF_vars(ProgramStep(f))

(***************************************************************************)
(* Properties                                                              *)
(***************************************************************************)
Drawn(f) == {s \in Range(shapes[f]) : s.kind \in {"rect", "trap"}}

\* the interiors of two boxes intersect
Overlap(a, b) ==
    /\ a[1] < b[1] + b[3]
    /\ b[1] < a[1] + a[3]
    /\ a[2] < b[2] + b[4]
    /\ b[2] < a[2] + a[4]

\* the point p lies in the interior of the box b
Inside(p, b) ==
    /\ b[1] < p[1]
    /\ p[1] < b[1] + b[3]
    /\ b[2] < p[2]
    /\ p[2] < b[2] + b[4]

\* the point p lies in the closed box b
Within(p, b) ==
    /\ b[1] <= p[1]
    /\ p[1] <= b[1] + b[3]
    /\ b[2] <= p[2]
    /\ p[2] <= b[2] + b[4]

DistSq(p, q) == (p[1] - q[1]) * (p[1] - q[1]) + (p[2] - q[2]) * (p[2] - q[2])

\* C1: for every box (x, y, w, h) with w, h >= 0 the anchors are
\* left_mid = (x, y + h/2), right_mid = (x + w, y + h/2), top_mid = (x + w/2, y + h),
\* bottom_mid = (x + w/2, y), center = (x + w/2, y + h/2), and center is the
\* midpoint of left_mid and right_mid and of top_mid and bottom_mid.
C1_Anchors ==
    LET x == args.x
        y == args.y
        w == args.w
        h == args.h
        v == result.val
    IN  /\ result.fn = "left_mid" => v[1] = x /\ 2 * (v[2] - y) = h
        /\ result.fn = "right_mid" => v[1] = x + w /\ 2 * (v[2] - y) = h
        /\ result.fn = "top_mid" => 2 * (v[1] - x) = w /\ v[2] = y + h
        /\ result.fn = "bottom_mid" => 2 * (v[1] - x) = w /\ v[2] = y
        /\ result.fn = "center" =>
              /\ 2 * (v[1] - x) = w
              /\ 2 * (v[2] - y) = h
              /\ 2 * v[1] = left_mid(ArgBox)[1] + right_mid(ArgBox)[1]
              /\ 2 * v[2] = left_mid(ArgBox)[2] + right_mid(ArgBox)[2]
              /\ 2 * v[1] = top_mid(ArgBox)[1] + bottom_mid(ArgBox)[1]
              /\ 2 * v[2] = top_mid(ArgBox)[2] + bottom_mid(ArgBox)[2]

C1_Witness ==
    /\ result.fn = "top_mid"
    /\ ArgBox = <<0 - Grid, Grid, 2 * Grid, 4 * Grid>>
    /\ result.val = <<0, 5 * Grid>>

\* C2: trap_left returns the bounding box (x, y, w, h) and the four vertices
\* [(x, y), (x + w, y), (x + w, y + h), (x + 0.4*w, y + h)]: vertical right edge,
\* top edge inset from the left by 0.4 of the width, every vertex inside the
\* bounding box; w = 2, h = 1 at the origin gives [(0,0), (2,0), (2,1), (0.8,1)].
C2_TrapLeft ==
    LET x == args.x
        y == args.y
        w == args.w
        h == args.h
        v == result.val
    IN  result.fn = "trap_left" =>
           /\ v.box = <<x, y, w, h>>
           /\ Len(v.points) = 4
           /\ v.points[1] = <<x, y>>
           /\ v.points[2] = <<x + w, y>>
           /\ v.points[3] = <<x + w, y + h>>
           /\ v.points[4][2] = y + h
           /\ 10 * (v.points[4][1] - x) = 4 * w
           /\ v.points[2][1] = v.points[3][1]
           /\ \A i \in 1..4 : Within(v.points[i], v.box)
           /\ (x = 0 /\ y = 0 /\ w = 2 * Scale /\ h = Scale) =>
                 v.points = << <<0, 0>>, <<2000, 0>>, <<2000, 1000>>, <<800, 1000>> >>

C2_Witness ==
    /\ result.fn = "trap_left"
    /\ ArgBox = <<0, 0, 2 * Scale, Scale>>
    /\ result.val.points[4] = <<800, 1000>>

\* C3: rb_flag builds the three vertices [(x, y), (x + s, y), (x + 0.5*s, y + 0.58*s)]:
\* horizontal base of length s, apex centred over the base at height 0.58*s, the
\* two slanted sides of equal length; s = 0.5 at the origin gives
\* [(0,0), (0.5,0), (0.25,0.29)].
C3_RbFlag ==
    LET x == args.x
        y == args.y
        s == args.s
        v == result.val
    IN  result.fn = "rb_flag" =>
           /\ Len(v) = 3
           /\ v[1] = <<x, y>>
           /\ v[2] = <<x + s, y>>
           /\ 2 * (v[3][1] - x) = s
           /\ 100 * (v[3][2] - y) = 58 * s
           /\ DistSq(v[1], v[3]) = DistSq(v[2], v[3])
           /\ (x = 0 /\ y = 0 /\ s = Grid) => v = << <<0, 0>>, <<500, 0>>, <<250, 290>> >>

C3_Witness ==
    /\ result.fn = "rb_flag"
    /\ args.x = 0 /\ args.y = 0 /\ args.s = Grid
    /\ result.val[3] = <<250, 290>>

\* C4: the two programs emit the same sequence of shapes and the same arrows
\* with the same start and end coordinates, the two resource-buffer arrows included.
C4_SameOutput ==
    (\A f \in Files : status[f] = "done") =>
        /\ shapes["ccpm_diagram"] = shapes["ccpm_diagram_improved"]
        /\ arrows["ccpm_diagram"] = arrows["ccpm_diagram_improved"]

C5_Order ==
    \A f \in Files :
       /\ \A i \in 1..Len(arrows[f]) :
             {arrows[f][i].from, arrows[f][i].to} \subseteq {s.name : s \in Range(shapes[f])}
       /\ status[f] = "done" =>
             /\ files[f] = <<"png", "pdf", "svg">>
             /\ attempts[f] = <<"png", "pdf", "svg">>

C5_NoDrawingAfterExport ==
    \A f \in Files :
       attempts[f] # <<>> => shapes'[f] = shapes[f] /\ arrows'[f] = arrows[f]

C5_Terminates ==
    <>(\A f \in Files : status[f] = "failed" \/ (status[f] = "done" /\ Len(files[f]) = 3))

\* C5: a run is one linear pass: every arrow is drawn only after both shapes it
\* connects are constructed, no file is written before every shape and arrow is
\* drawn, and a run in which no write fails terminates having written png, pdf,
\* svg in this order, each exactly once.
C5_LinearPass ==
    /\ []C5_Order
    /\ [][C5_NoDrawingAfterExport]_vars
    /\ C5_Terminates

C5_Witness ==
    \E f \in Files :
       /\ status[f] = "done"
       /\ Len(shapes[f]) = 14
       /\ Len(arrows[f]) = 13
       /\ files[f] = <<"png", "pdf", "svg">>

C6_Failed ==
    \A f \in Files :
       /\ Len(attempts[f]) > Len(files[f]) => status[f] = "failed"
       /\ status[f] = "failed" =>
             /\ ~printed[f]
             /\ Len(attempts[f]) = Len(files[f]) + 1
             /\ files[f] = SubSeq(attempts[f], 1, Len(files[f]))
             /\ \A i, j \in 1..Len(attempts[f]) : attempts[f][i] = attempts[f][j] => i = j

C6_NoRecovery ==
    \A f \in Files :
       status[f] = "failed" =>
          /\ status'[f] = "failed"
          /\ pc'[f] = pc[f]
          /\ attempts'[f] = attempts[f]
          /\ files'[f] = files[f]
          /\ printed'[f] = printed[f]

\* C6: a failed write of any of the three files is not recovered: the run ends in
\* failure at that write, the write is not retried, no later format is written
\* and the success message is not reported.
C6_WriteFailureIsFatal ==
    /\ []C6_Failed
    /\ [][C6_NoRecovery]_vars

C6_Witness ==
    \E f \in Files :
       /\ status[f] = "failed"
       /\ files[f] = <<"png">>
       /\ attempts[f] = <<"png", "pdf">>

\* C7: in the fixed layout the bounding boxes of the tasks A, B, C, D, E, H, I,
\* the project buffer PB, the feeder tasks F, G and the feeding buffers FB1, FB2
\* are pairwise disjoint.
C7_NoOverlap ==
    \A f \in Files :
       \A a, b \in Drawn(f) : a.name # b.name => ~Overlap(a.box, b.box)

\* C8: each arrow from a feeding buffer to its task starts gap below the buffer's
\* bottom-mid, ends gap above the task's top-mid, runs downward (start y strictly
\* greater than tip y) and has neither end inside a task or buffer box.
C8_FeederArrows ==
    \A f \in Files :
       \A i \in 1..Len(arrows[f]) :
          LET a == arrows[f][i]
          IN  a.from \in {"FB1", "FB2"} =>
                 /\ a.p1 = <<bottom_mid(BoxOf(shapes[f], a.from))[1],
                             bottom_mid(BoxOf(shapes[f], a.from))[2] - gap>>
                 /\ a.p2 = <<top_mid(BoxOf(shapes[f], a.to))[1],
                             top_mid(BoxOf(shapes[f], a.to))[2] + gap>>
                 /\ a.p1[2] > a.p2[2]
                 /\ \A s \in Drawn(f) : ~Inside(a.p1, s.box) /\ ~Inside(a.p2, s.box)

\* C9: the arrow from task I to the project buffer ends at the midpoint of the
\* segment between the vertices pts[0] and pts[3] of the PB trapezoid.
C9_PBLeftEdgeMidpoint ==
    \A f \in Files :
       \A i \in 1..Len(arrows[f]) :
          LET a == arrows[f][i]
              pts == PtsOf(shapes[f], "PB")
          IN  (a.from = "I" /\ a.to = "PB") =>
                 /\ 2 * a.p2[1] = pts[1][1] + pts[4][1]
                 /\ 2 * a.p2[2] = pts[1][2] + pts[4][2]

\* C10: every vertex of every shape of the fixed layout lies inside the canvas
\* limits 0 <= x <= x0 + 8.4*dx and -0.9 <= y <= 2.8.
C10_InsideCanvas ==
    \A f \in Files :
       limits[f] # <<>> =>
          \A s \in Range(shapes[f]) :
             \A k \in 1..Len(s.pts) :
                /\ limits[f][1][1] <= s.pts[k][1]
                /\ s.pts[k][1] <= limits[f][1][2]
                /\ limits[f][2][1] <= s.pts[k][2]
                /\ s.pts[k][2] <= limits[f][2][2]

====
